---------------------------- MODULE Spec2Model ----------------------------
(***************************************************************************)
(* Model of the ISS urine tank monitor bot (src/src/bot.py, config.py).    *)
(*                                                                         *)
(* Texts (file content, feed fields, numbers in replies) are sequences of  *)
(* one-character strings, so that int(), str(), float(), splitlines() and  *)
(* join() are computed character by character as Python computes them.     *)
(* Tank levels are carried in tenths of a percent (10.2 is 102): every     *)
(* feed text of the model has at most one fractional digit, and on the     *)
(* levels used here the float comparison of line 163 agrees with the       *)
(* comparison of the tenths.                                               *)
(* An optional value is a sequence of length 0 (None) or 1.                *)
(***************************************************************************)
EXTENDS Integers, Sequences, FiniteSets, TLC

VARIABLES
    subscribers,        \* tracker.subscribers: set of chat ids
    file,               \* SUBSCRIBERS_FILE: [exists, content]
    last_urine_level,   \* tracker.last_urine_level (tenths)
    current_value,      \* tracker.current_value: None or <<tenths>>
    connected,          \* tracker.connected
    subscribed,         \* lightstreamer_client.subscribe(...) was called
    clientStatus,       \* status last reported by the transport
    mainPc,             \* position of main()/start_jobs/connect_lightstreamer
    polls,              \* iterations of "for _ in range(30)" completed
    tickPc,             \* position of monitor_urine_level
    msg,                \* the message formatted by the running/last tick
    itUsed,             \* set iterator: size of the set when it was created
    itPos,              \* set iterator: next table slot to look at
    chat_id,            \* loop variable of the fan-out: None or <<id>>
    attempts,           \* deliveries started by the running/last tick, in order
    failed,             \* chats whose delivery raised in the running/last tick
    tickResult,         \* how the last tick ended
    cmd,                \* chat command being handled: None or <<[name, chat]>>
    reply,              \* reply_text calls of that handler, in order
    cmdExc,             \* exception that left that handler: None or <<name>>
    subsChanged,        \* a handler changed the set during the running fan-out
    everValid,          \* a feed frame with a parsable value was processed
    errorLog,           \* kinds of logger.error lines written by onItemUpdate
    cbEscaped           \* an exception left a transport callback

vars == << subscribers, file, last_urine_level, current_value, connected,
           subscribed, clientStatus, mainPc, polls, tickPc, msg, itUsed, itPos,
           chat_id, attempts, failed, tickResult, cmd, reply, cmdExc,
           subsChanged, everValid, errorLog, cbEscaped >>

None == << >>
Some(v) == << v >>

-----------------------------------------------------------------------------
(* config.py *)

\* MIN_CHANGE_THRESHOLD = 0.5, in tenths of a percent
MIN_CHANGE_THRESHOLD == 5

\* range(30) of the connection wait
ConnectPolls == 30

-----------------------------------------------------------------------------
(* Python text primitives *)

DigitChars == << "0", "1", "2", "3", "4", "5", "6", "7", "8", "9" >>

IsDigit(c) == \E i \in 1..10 : DigitChars[i] = c

DigitVal(c) == (CHOOSE i \in 1..10 : DigitChars[i] = c) - 1

AllDigits(s) == Len(s) > 0 /\ \A i \in 1..Len(s) : IsDigit(s[i])

RECURSIVE DigitsToNat(_)
DigitsToNat(s) ==
    IF Len(s) = 0 THEN 0
    ELSE DigitsToNat(SubSeq(s, 1, Len(s) - 1)) * 10 + DigitVal(s[Len(s)])

RECURSIVE NatToDigits(_)
NatToDigits(n) ==
    IF n < 10 THEN << DigitChars[n + 1] >>
    ELSE Append(NatToDigits(n \div 10), DigitChars[(n % 10) + 1])

\* str(n) for an int
PyStr(n) == IF n < 0 THEN << "-" >> \o NatToDigits(0 - n) ELSE NatToDigits(n)

Unsigned(s) ==
    IF Len(s) > 0 /\ s[1] \in { "-", "+" } THEN SubSeq(s, 2, Len(s)) ELSE s

Signed(s, n) == IF Len(s) > 0 /\ s[1] = "-" THEN 0 - n ELSE n

\* int(s): [ok, val], ok = FALSE standing for ValueError
PyInt(s) ==
    IF AllDigits(Unsigned(s))
    THEN [ok |-> TRUE, val |-> Signed(s, DigitsToNat(Unsigned(s)))]
    ELSE [ok |-> FALSE, val |-> 0]

IndexOf(s, c) ==
    IF \E i \in 1..Len(s) : s[i] = c
    THEN CHOOSE i \in 1..Len(s) : s[i] = c /\ \A j \in 1..(i - 1) : s[j] # c
    ELSE 0

\* float(s) in tenths: [ok, val], ok = FALSE standing for ValueError.
\* Accepts [sign] digits, [sign] digits "." [digit] and [sign] "." digit.
PyFloat(s) ==
    LET u == Unsigned(s)
        dot == IndexOf(u, ".")
        whole == IF dot = 0 THEN u ELSE SubSeq(u, 1, dot - 1)
        frac == IF dot = 0 THEN << >> ELSE SubSeq(u, dot + 1, Len(u))
        wellFormed ==
            /\ Len(whole) + Len(frac) > 0
            /\ Len(whole) > 0 => AllDigits(whole)
            /\ Len(frac) > 0 => AllDigits(frac)
            /\ Len(frac) <= 1
    IN  IF wellFormed
        THEN [ok |-> TRUE,
              val |-> Signed(s, DigitsToNat(whole) * 10 + DigitsToNat(frac))]
        ELSE [ok |-> FALSE, val |-> 0]

\* f"{v:.1f}" of a level in tenths
Format1f(v) ==
    LET a == IF v < 0 THEN 0 - v ELSE v
    IN  (IF v < 0 THEN << "-" >> ELSE << >>)
            \o NatToDigits(a \div 10) \o << "." >> \o NatToDigits(a % 10)

\* s.splitlines() for texts whose only line break is "\n"
RECURSIVE SplitLines(_)
SplitLines(s) ==
    IF Len(s) = 0 THEN << >>
    ELSE LET nl == IndexOf(s, "\n")
         IN  IF nl = 0 THEN << s >>
             ELSE << SubSeq(s, 1, nl - 1) >> \o SplitLines(SubSeq(s, nl + 1, Len(s)))

\* '\n'.join(lines)
RECURSIVE JoinLines(_)
JoinLines(lines) ==
    IF Len(lines) = 0 THEN << >>
    ELSE IF Len(lines) = 1 THEN lines[1]
    ELSE lines[1] \o << "\n" >> \o JoinLines(Tail(lines))

Abs(x) == IF x < 0 THEN 0 - x ELSE x

-----------------------------------------------------------------------------
(* Inputs of the model *)

ChatIds == { 12, -3 }

T100 == << "1", "0", ".", "0" >>
T102 == << "1", "0", ".", "2" >>
T105 == << "1", "0", ".", "5" >>
T109 == << "1", "0", ".", "9" >>
T0 == << "0" >>
TBad == << "1", "O", ".", "2" >>
TEmpty == << >>

\* texts of the "Value" field the feed may carry
FeedTexts == { T0, T100, T102, T105, T109, TBad, TEmpty }

\* a feed frame: the snapshot form is a dict, the update form an ItemUpdate;
\* present: "Value" in update (dict form); value: None or the field's text
FramesOf(texts) ==
    [ form : { "dict" }, item : { "NODE3000005" }, present : { TRUE },
      value : { None } \cup { Some(t) : t \in texts } ]
    \cup
    [ form : { "dict" }, item : { "NODE3000005" }, present : { FALSE },
      value : { None } ]
    \cup
    [ form : { "update" }, item : { "NODE3000005", "NODE3000004" },
      present : { TRUE }, value : { None } \cup { Some(t) : t \in texts } ]

Frames == FramesOf(FeedTexts)

\* statuses of the transport, as the text before ":" and the rest
Statuses ==
    { << "CONNECTING" >>,
      << "CONNECTED", ":", "WS-STREAMING" >>,
      << "STALLED" >>,
      << "DISCONNECTED", ":", "WILL-RETRY" >>,
      << "DISCONNECTED" >> }

\* content of the subscribers file a run may start from
Missing == [exists |-> FALSE, content |-> << >>]
Stored(text) == [exists |-> TRUE, content |-> text]

InitFiles ==
    { Missing,
      Stored(<< "1", "2" >>),
      Stored(<< "-", "3", "\n", "1", "2", "\n" >>),
      Stored(<< "-", "3", "\n", "-", "3" >>) }

-----------------------------------------------------------------------------
(* Subscriber store *)

\* CPython keeps a small set of ints in a table of 8 slots, an int at slot
\* hash & 7, and iterates the table by ascending slot
Slot(x) == x % 8

\* the first occupied slot at or after pos, 8 if there is none
NextSlot(S, pos) ==
    IF \E x \in S : Slot(x) >= pos
    THEN Slot(CHOOSE x \in S : Slot(x) >= pos /\ \A y \in S : Slot(y) >= pos => Slot(x) <= Slot(y))
    ELSE 8

ElemAt(S, k) == CHOOSE x \in S : Slot(x) = k

\* list(S): the elements in iteration order
RECURSIVE IterFrom(_, _)
IterFrom(S, pos) ==
    IF NextSlot(S, pos) = 8 THEN << >>
    ELSE << ElemAt(S, NextSlot(S, pos)) >> \o IterFrom(S, NextSlot(S, pos) + 1)

\* '\n'.join(map(str, self.subscribers))
SaveText(S) ==
    LET order == IterFrom(S, 0)
    IN  JoinLines([i \in 1..Len(order) |-> PyStr(order[i])])

\* load_subscribers: [ok, val]; ok = FALSE standing for the ValueError of int()
load_subscribers(f) ==
    IF ~f.exists THEN [ok |-> TRUE, val |-> {}]
    ELSE LET lines == SplitLines(f.content)
         IN  IF \A i \in 1..Len(lines) : PyInt(lines[i]).ok
             THEN [ok |-> TRUE, val |-> { PyInt(lines[i]).val : i \in 1..Len(lines) }]
             ELSE [ok |-> FALSE, val |-> {}]

\* save_subscribers when open() and write() succeed
save_subscribers(S) == Stored(SaveText(S))

-----------------------------------------------------------------------------
(* ISSUrineTracker.__init__ *)

NoMsg == [prev |-> None, cur |-> None, change |-> None]

InitOn(files) ==
    /\ file \in files
    /\ load_subscribers(file).ok
    /\ subscribers = load_subscribers(file).val
    /\ last_urine_level = 0
    /\ current_value = None
    /\ connected = FALSE
    /\ subscribed = FALSE
    /\ clientStatus = << "DISCONNECTED" >>
    /\ mainPc = "start"
    /\ polls = 0
    /\ tickPc = "idle"
    /\ msg = NoMsg
    /\ itUsed = 0
    /\ itPos = 0
    /\ chat_id = None
    /\ attempts = << >>
    /\ failed = {}
    /\ tickResult = "none"
    /\ cmd = None
    /\ reply = << >>
    /\ cmdExc = None
    /\ subsChanged = FALSE
    /\ everValid = FALSE
    /\ errorLog = {}
    /\ cbEscaped = FALSE

Init == InitOn(InitFiles)

storeVars == << subscribers, file >>
levelVars == << last_urine_level, current_value >>
connVars == << connected, clientStatus >>
mainVars == << mainPc, polls, subscribed >>
tickLocals == << tickPc, msg, itUsed, itPos, chat_id, attempts, failed, tickResult >>
tickVars == << tickPc, msg, itUsed, itPos, chat_id, attempts, failed, tickResult,
              subsChanged >>
cmdVars == << cmd, reply, cmdExc >>
ghostVars == << everValid, errorLog, cbEscaped >>

-----------------------------------------------------------------------------
(* A handler's reply is in flight while cmd is not None.  No other activity *)
(* reads or writes cmd, reply or cmdExc, and the handler's return changes   *)
(* nothing else, so the steps other activities take during that suspension  *)
(* commute with the return: the model lets the handler return first.        *)

NoReplyInFlight == cmd = None

-----------------------------------------------------------------------------
(* Transport callbacks, run on the transport's thread *)

IsPrefix(p, s) == Len(p) <= Len(s) /\ SubSeq(s, 1, Len(p)) = p

\* status.startswith("CONNECTED:")
StartsWithConnected(status) == IsPrefix(<< "CONNECTED", ":" >>, status)

\* variant: any status that begins with DISCONNECTED counts as disconnected
IsDisconnectedPrefix(status) == Head(status) = "DISCONNECTED"

\* status == "DISCONNECTED"
IsDisconnected(status) == status = << "DISCONNECTED" >>

\* the value of self.connected after onStatusChange(status)
ConnectedAfter(status, before) ==
    IF StartsWithConnected(status) THEN TRUE
    ELSE IF IsDisconnected(status) THEN FALSE
    ELSE before

\* lightstreamer_client.connect() was called and the process is alive
TransportRunning == mainPc \in { "poll", "sleep", "after", "running" }

\* variant: a disconnect forgets the cached level
onStatusChangeForgets(status) ==
    /\ TransportRunning
    /\ NoReplyInFlight
    /\ status # clientStatus
    /\ clientStatus' = status
    /\ connected' = ConnectedAfter(status, connected)
    /\ current_value' = IF IsDisconnected(status) THEN None ELSE current_value
    /\ UNCHANGED << storeVars, last_urine_level, mainVars, tickVars, cmdVars,
                    ghostVars >>

onStatusChange(status) ==
    /\ TransportRunning
    /\ NoReplyInFlight
    /\ status # clientStatus
    /\ clientStatus' = status
    /\ connected' = ConnectedAfter(status, connected)
    /\ UNCHANGED << storeVars, levelVars, mainVars, tickVars, cmdVars, ghostVars >>

\* float(value): "ok", or the exception it raises
FloatOutcome(value) ==
    IF value = None THEN "TypeError"
    ELSE IF PyFloat(value[1]).ok THEN "ok"
    ELSE "ValueError"

\* "except ValueError" of lines 73 and 87
InnerCatches(exc) == exc = "ValueError"

\* "except Exception" of line 93
OuterCatches(exc) == exc \in { "ValueError", "TypeError" }

\* the frame makes onItemUpdate reach a float() call
ReachesFloat(frame) ==
    IF frame.form = "dict" THEN frame.present
    ELSE frame.item = "NODE3000005" /\ frame.value # None

\* variant: a text that fails to parse is stored as the parser's default
AcceptedLenient(frame) == ReachesFloat(frame) /\ frame.value # None

\* the frame's value is stored in current_value
Accepted(frame) == ReachesFloat(frame) /\ FloatOutcome(frame.value) = "ok"

\* the handler that catches the exception of float() logs one error line:
\* lines 74 and 88, or line 94
Logged(frame) ==
    IF ~ReachesFloat(frame) THEN {}
    ELSE IF InnerCatches(FloatOutcome(frame.value)) THEN { "Could not convert" }
    ELSE IF OuterCatches(FloatOutcome(frame.value)) THEN { "Error processing update" }
    ELSE {}

\* no handler catches the exception of float()
Escapes(frame) ==
    /\ ReachesFloat(frame)
    /\ ~InnerCatches(FloatOutcome(frame.value))
    /\ ~OuterCatches(FloatOutcome(frame.value))

\* the frame also sets last_urine_level (line 72)
SetsBaseline(frame) == frame.form = "dict"

onItemUpdate(frame) ==
    /\ subscribed
    /\ NoReplyInFlight
    /\ IF Accepted(frame)
       THEN /\ current_value' = Some(PyFloat(frame.value[1]).val)
            /\ last_urine_level' =
                   IF SetsBaseline(frame) THEN PyFloat(frame.value[1]).val
                   ELSE last_urine_level
            /\ everValid' = TRUE
            /\ UNCHANGED << errorLog, cbEscaped >>
       ELSE /\ UNCHANGED << levelVars, everValid >>
            /\ errorLog' = errorLog \cup Logged(frame)
            /\ cbEscaped' = (cbEscaped \/ Escapes(frame))
    /\ UNCHANGED << storeVars, connVars, mainVars, tickVars, cmdVars >>

-----------------------------------------------------------------------------
(* main.start_jobs and connect_lightstreamer, run on the event loop before *)
(* the bot starts to poll for commands                                     *)

\* lines 117-136: the client is created and connect() is called
StartConnect ==
    /\ mainPc = "start"
    /\ mainPc' = "poll"
    /\ UNCHANGED << polls, subscribed, storeVars, levelVars, connVars, tickVars,
                    cmdVars, ghostVars >>

\* line 140: the test of one poll iteration
PollSeesConnected(conn) == conn

\* lines 140-143, then line 255: subscribe, return, schedule the notifier
PollConnection ==
    /\ mainPc = "poll"
    /\ IF PollSeesConnected(connected)
       THEN /\ subscribed' = TRUE
            /\ mainPc' = "running"
            /\ polls' = 0
       ELSE /\ mainPc' = "sleep"
            /\ UNCHANGED << subscribed, polls >>
    /\ UNCHANGED << storeVars, levelVars, connVars, tickVars, cmdVars, ghostVars >>

\* line 144, then the next iteration of range(30) or the end of the loop
PollSleep ==
    /\ mainPc = "sleep"
    /\ polls' = polls + 1
    /\ mainPc' = IF polls + 1 < ConnectPolls THEN "poll" ELSE "after"
    /\ UNCHANGED << subscribed, storeVars, levelVars, connVars, tickVars,
                    cmdVars, ghostVars >>

\* variant: the end of the wait never raises
TimesOutNever(conn) == FALSE

\* line 146: the test after the loop; TRUE raises the timeout
TimesOut(conn) == ~conn

\* lines 146-151: raise, or fall off the end of connect_lightstreamer and
\* return to start_jobs, which schedules the notifier (line 255)
AfterPolls ==
    /\ mainPc = "after"
    /\ mainPc' = IF TimesOut(connected) THEN "failed" ELSE "running"
    /\ polls' = 0
    /\ UNCHANGED << subscribed, storeVars, levelVars, connVars, tickVars,
                    cmdVars, ghostVars >>

-----------------------------------------------------------------------------
(* monitor_urine_level, a job on the event loop; the transport's thread    *)
(* runs between any two of its steps, command handlers only while it is   *)
(* suspended in send_message.  Its locals are dropped when it ends.        *)

\* variant: a change of exactly the threshold does not notify
NotifiesStrict(cur, last) ==
    cur # None /\ Abs(cur[1] - last) > MIN_CHANGE_THRESHOLD

\* line 163
Notifies(cur, last) == cur # None /\ Abs(cur[1] - last) >= MIN_CHANGE_THRESHOLD

\* next() of the set iterator: "error" is RuntimeError (the set changed size
\* during iteration), "stop" is StopIteration
IterNext(S, used, pos) ==
    IF used # Cardinality(S) THEN [kind |-> "error", slot |-> pos]
    ELSE IF NextSlot(S, pos) = 8 THEN [kind |-> "stop", slot |-> pos]
    ELSE [kind |-> "elem", slot |-> NextSlot(S, pos)]

DropLocals ==
    /\ msg' = NoMsg
    /\ itUsed' = 0
    /\ itPos' = 0
    /\ chat_id' = None
    /\ attempts' = << >>
    /\ failed' = {}
    /\ subsChanged' = FALSE

\* the loop head of line 173 with the iterator (used, pos) after the
\* deliveries in nowFailed raised: start the next send, leave the loop, or
\* leave the job with the RuntimeError
LoopHead(used, pos, nowFailed) ==
    LET nx == IterNext(subscribers, used, pos)
    IN  IF nx.kind = "error"
        THEN /\ tickPc' = "idle"
             /\ tickResult' = "raised"
             /\ DropLocals
        ELSE /\ itUsed' = used
             /\ failed' = nowFailed
             /\ UNCHANGED << msg, tickResult, subsChanged >>
             /\ IF nx.kind = "elem"
                THEN /\ tickPc' = "send"
                     /\ chat_id' = Some(ElemAt(subscribers, nx.slot))
                     /\ attempts' = Append(attempts, ElemAt(subscribers, nx.slot))
                     /\ itPos' = nx.slot + 1
                ELSE /\ tickPc' = "fin"
                     /\ UNCHANGED << chat_id, attempts, itPos >>

\* lines 159-161
TickCheck ==
    /\ mainPc = "running"
    /\ NoReplyInFlight
    /\ tickPc = "idle"
    /\ IF current_value = None
       THEN tickPc' = "idle" /\ tickResult' = "skipped"
       ELSE tickPc' = "test" /\ tickResult' = "none"
    /\ UNCHANGED << msg, itUsed, itPos, chat_id, attempts, failed, subsChanged,
                    storeVars, levelVars, connVars, mainVars, cmdVars, ghostVars >>

\* variant: a tick below the threshold remembers the value it saw
TickTestRemembers ==
    /\ tickPc = "test"
    /\ IF Notifies(current_value, last_urine_level)
       THEN tickPc' = "change" /\ UNCHANGED << tickResult, last_urine_level >>
       ELSE /\ tickPc' = "idle"
            /\ tickResult' = "skipped"
            /\ last_urine_level' = current_value[1]
    /\ UNCHANGED << msg, itUsed, itPos, chat_id, attempts, failed, subsChanged,
                    current_value, storeVars, connVars, mainVars, cmdVars,
                    ghostVars >>

\* line 163
TickTest ==
    /\ tickPc = "test"
    /\ IF Notifies(current_value, last_urine_level)
       THEN tickPc' = "change" /\ UNCHANGED tickResult
       ELSE tickPc' = "idle" /\ tickResult' = "skipped"
    /\ UNCHANGED << msg, itUsed, itPos, chat_id, attempts, failed, subsChanged,
                    storeVars, levelVars, connVars, mainVars, cmdVars, ghostVars >>

\* line 164
TickChange ==
    /\ tickPc = "change"
    /\ msg' = [msg EXCEPT !.change = Some(current_value[1] - last_urine_level)]
    /\ tickPc' = "prev"
    /\ UNCHANGED << itUsed, itPos, chat_id, attempts, failed, tickResult,
                    subsChanged, storeVars, levelVars, connVars, mainVars, cmdVars,
                    ghostVars >>

\* line 167
TickPrev ==
    /\ tickPc = "prev"
    /\ msg' = [msg EXCEPT !.prev = Some(last_urine_level)]
    /\ tickPc' = "cur"
    /\ UNCHANGED << itUsed, itPos, chat_id, attempts, failed, tickResult,
                    subsChanged, storeVars, levelVars, connVars, mainVars, cmdVars,
                    ghostVars >>

\* line 168
TickCur ==
    /\ tickPc = "cur"
    /\ msg' = [msg EXCEPT !.cur = Some(current_value[1])]
    /\ tickPc' = "loop"
    /\ UNCHANGED << itUsed, itPos, chat_id, attempts, failed, tickResult,
                    subsChanged, storeVars, levelVars, connVars, mainVars, cmdVars,
                    ghostVars >>

\* lines 172-175: iter(self.subscribers) and the first pass of the loop head
TickLoop ==
    /\ tickPc = "loop"
    /\ LoopHead(Cardinality(subscribers), 0, {})
    /\ UNCHANGED << storeVars, levelVars, connVars, mainVars, cmdVars, ghostVars >>

\* the send raised and lines 176-177 caught it
SendFailed(ok) == ~ok

\* variant: the exception of a send is not caught and ends the job
SendDoneUncaught(ok) ==
    /\ tickPc = "send"
    /\ NoReplyInFlight
    /\ IF ok
       THEN LoopHead(itUsed, itPos, failed)
       ELSE tickPc' = "idle" /\ tickResult' = "raised" /\ DropLocals
    /\ UNCHANGED << storeVars, levelVars, connVars, mainVars, cmdVars, ghostVars >>

\* lines 175-177: send_message returns or raises, then the loop head again
SendDone(ok) ==
    /\ tickPc = "send"
    /\ NoReplyInFlight
    /\ LoopHead(itUsed, itPos,
                IF SendFailed(ok) THEN failed \cup { chat_id[1] } ELSE failed)
    /\ UNCHANGED << storeVars, levelVars, connVars, mainVars, cmdVars, ghostVars >>

\* the right-hand side of line 179
BroadcastLevel(cur, m) == cur[1]

\* line 179
TickFinish ==
    /\ tickPc = "fin"
    /\ last_urine_level' = BroadcastLevel(current_value, msg)
    /\ tickPc' = "idle"
    /\ tickResult' = "notified"
    /\ DropLocals
    /\ UNCHANGED << current_value, storeVars, connVars, mainVars, cmdVars,
                    ghostVars >>

-----------------------------------------------------------------------------
(* Command handlers, run on the event loop one at a time: each runs to its *)
(* reply_text without suspending, and returns when the reply is sent       *)

Text(kind, args) == [kind |-> kind, args |-> args]

Welcome == Text("welcome", << >>)
AlreadySubscribed == Text("already subscribed", << >>)
Unsubscribed == Text("unsubscribed", << >>)
WasntSubscribed == Text("wasn't subscribed", << >>)
UnableToFetch == Text("unable to fetch", << >>)
Level(v) == Text("level", << Format1f(v) >>)

NoneText == << "None" >>
OrNone(opt) == IF opt = None THEN NoneText ELSE Format1f(opt[1])

\* the event loop can run a handler: the bot is polling, no handler is
\* running, and the notifier is not between two of its suspensions
CmdReady ==
    /\ mainPc = "running"
    /\ cmd = None
    /\ tickPc \in { "idle", "send" }

Handling(name, c) == cmd' = Some([name |-> name, chat |-> c])

\* save_subscribers as called by a handler: written, or open() raises OSError
\* and the file stays as it was
Save(S, written) ==
    /\ file' = IF written THEN save_subscribers(S) ELSE file
    /\ cmdExc' = IF written THEN None ELSE Some("OSError")

\* line 198
Added(S, c) == S \cup { c }

\* variant: /stop leaves the chat in the set
RemovedKept(S, c) == S

\* line 210
Removed(S, c) == S \ { c }

\* lines 195-205
start(c, written) ==
    /\ CmdReady
    /\ Handling("start", c)
    /\ IF c \notin subscribers
       THEN /\ subscribers' = Added(subscribers, c)
            /\ Save(subscribers', written)
            /\ reply' = IF written THEN << Welcome >> ELSE << >>
            /\ subsChanged' = (tickPc = "send")
       ELSE /\ reply' = << AlreadySubscribed >>
            /\ UNCHANGED << storeVars, cmdExc, subsChanged >>
    /\ UNCHANGED << levelVars, connVars, mainVars, tickLocals, ghostVars >>

\* lines 207-214
stop(c, written) ==
    /\ CmdReady
    /\ Handling("stop", c)
    /\ IF c \in subscribers
       THEN /\ subscribers' = Removed(subscribers, c)
            /\ Save(subscribers', written)
            /\ reply' = IF written THEN << Unsubscribed >> ELSE << >>
            /\ subsChanged' = (tickPc = "send")
       ELSE /\ reply' = << WasntSubscribed >>
            /\ UNCHANGED << storeVars, cmdExc, subsChanged >>
    /\ UNCHANGED << levelVars, connVars, mainVars, tickLocals, ghostVars >>

\* variant: the level is tested for truth, so 0.0 counts as absent
StatusReplyTruthy(cur) ==
    IF cur # None /\ cur[1] # 0 THEN Level(cur[1]) ELSE UnableToFetch

\* check_urine_level (lines 153-156) and the reply of lines 218-223
StatusReply(cur) == IF cur # None THEN Level(cur[1]) ELSE UnableToFetch

\* lines 216-223
status(c) ==
    /\ CmdReady
    /\ Handling("status", c)
    /\ reply' = << StatusReply(current_value) >>
    /\ UNCHANGED << cmdExc, storeVars, levelVars, connVars, mainVars, tickVars,
                    ghostVars >>

\* the message of lines 227-236
TestReply(conn, cur, last) ==
    Text("test", << IF conn THEN << "Connected" >> ELSE << "Disconnected" >>,
                    OrNone(cur), OrNone(Some(last)) >>)

\* lines 225-237
test(c) ==
    /\ CmdReady
    /\ Handling("test", c)
    /\ reply' = << TestReply(connected, current_value, last_urine_level) >>
    /\ UNCHANGED << cmdExc, storeVars, levelVars, connVars, mainVars, tickVars,
                    ghostVars >>

\* the handler returns (its reply is sent) or its exception reaches the
\* dispatcher; the next command can be handled
CmdReturn ==
    /\ cmd # None
    /\ cmd' = None
    /\ reply' = << >>
    /\ cmdExc' = None
    /\ UNCHANGED << storeVars, levelVars, connVars, mainVars, tickVars, ghostVars >>

-----------------------------------------------------------------------------
(* The program over given sets of inputs *)

NextOn(statuses, frames, chats) ==
    \/ StartConnect
    \/ PollConnection
    \/ PollSleep
    \/ AfterPolls
    \/ \E s \in statuses : onStatusChange(s)
    \/ \E f \in frames : onItemUpdate(f)
    \/ TickCheck
    \/ TickTest
    \/ TickChange
    \/ TickPrev
    \/ TickCur
    \/ TickLoop
    \/ \E ok \in BOOLEAN : SendDone(ok)
    \/ TickFinish
    \/ \E c \in chats, written \in BOOLEAN : start(c, written)
    \/ \E c \in chats, written \in BOOLEAN : stop(c, written)
    \/ \E c \in chats : status(c)
    \/ \E c \in chats : test(c)
    \/ CmdReturn

\* the program over every input of the model
Next == NextOn(Statuses, Frames, ChatIds)

Spec == Init /\ [][Next]_vars

(* The state space of Spec is the product of the levels, the statuses, the *)
(* stores and the positions of the notifier.  The properties are checked   *)
(* under the specifications below: the same program, each with the inputs  *)
(* its properties are about in full and the other inputs narrowed.         *)


\* the tracked item's frames
Tracked(frames) == { f \in frames : f.item = "NODE3000005" /\ f.value # None }

OneStatus == { << "CONNECTED", ":", "WS-STREAMING" >> }
OneChatFiles == { Missing, Stored(<< "1", "2" >>) }

\* the notifier against the feed: four levels in both forms of frame, one
\* chat, the transport connecting once
LevelFrames == { f \in FramesOf({ T100, T102, T105, T109 }) : f.value # None }
SpecLevel ==
    InitOn(OneChatFiles) /\ [][NextOn(OneStatus, LevelFrames, { 12 })]_vars

\* onItemUpdate against every kind of frame: parsable texts (one of them
\* zero), unparsable texts, a missing field and a null field
FeedFrames == FramesOf({ T0, T102, TBad, TEmpty })
SpecFeed ==
    InitOn(OneChatFiles) /\ [][NextOn(OneStatus, FeedFrames, { 12 })]_vars

\* the connection: every status, one chat, one level of the feed
ConnFrames == Tracked(FramesOf({ T109 }))
SpecConn ==
    InitOn(OneChatFiles) /\ [][NextOn(Statuses, ConnFrames, { 12 })]_vars

\* the subscriber store and the fan-out: every chat and stored file, two
\* levels of the feed
StoreFrames == { f \in Tracked(FramesOf({ T100, T109 })) : f.form = "update" }
SpecStore ==
    InitOn(InitFiles) /\ [][NextOn(OneStatus, StoreFrames, ChatIds)]_vars

\* one step of the notifier job
Tick ==
    \/ TickCheck
    \/ TickTest
    \/ TickChange
    \/ TickPrev
    \/ TickCur
    \/ TickLoop
    \/ \E ok \in BOOLEAN : SendDone(ok)
    \/ TickFinish

\* one step of the startup hook
Startup == StartConnect \/ PollConnection \/ PollSleep \/ AfterPolls

\* The scheduling of the event loop: the startup hook runs on; awaiting a
\* reply ends, with the reply sent or an exception; the job queue fires the
\* notifier every CHECK_INTERVAL seconds, the job runs on between its
\* awaits, and each send_message returns or raises.  The notifier is held
\* back here only while a handler's reply is in flight, which ends each
\* time, so it runs whenever it can run again and again.
Fairness ==
    /\ WF_vars(Startup)
    /\ WF_vars(CmdReturn)
    /\ SF_vars(Tick)

\* the notifier under fair scheduling: two levels of the feed in both forms
\* of frame, one chat, the transport connecting once
LiveFrames == Tracked(FramesOf({ T100, T109 }))
SpecLive ==
    /\ InitOn(OneChatFiles)
    /\ [][NextOn(OneStatus, LiveFrames, { 12 })]_vars
    /\ Fairness

-----------------------------------------------------------------------------
(* Properties *)

Range(q) == { q[i] : i \in 1..Len(q) }
NoRepeats(q) == \A i, j \in 1..Len(q) : q[i] = q[j] => i = j

\* the step is the handling of command name from chat c
Handles(name, c) == cmd = None /\ cmd' = Some([name |-> name, chat |-> c])

\* the step is line 179 of a tick
FinishStep == tickPc = "fin" /\ tickPc' = "idle"

\* C1 as stated: the Last-Broadcast Value changes only in the step of a
\* notifying tick that ends it (line 179); no feed update, status change or
\* command changes it.
C1_OnlyNotifierWritesBroadcast ==
    [][last_urine_level' # last_urine_level => FinishStep]_vars

\* C1 amended: the Last-Broadcast Value changes only (a) in the last step of
\* a tick that passed the threshold test and ran its fan-out to the end,
\* which sets it to the Tracked Value, or (b) in a feed update of the
\* snapshot (dict) form with a parsable Value, which sets both the Tracked
\* Value and the Last-Broadcast Value to that value.
C1_BroadcastWriters ==
    [][last_urine_level' # last_urine_level =>
          \/ /\ FinishStep
             /\ tickResult' = "notified"
             /\ last_urine_level' = current_value[1]
          \/ \E f \in Frames :
                 /\ f.form = "dict"
                 /\ f.present
                 /\ onItemUpdate(f)
                 /\ current_value' = Some(last_urine_level')]_vars

\* a snapshot set the Last-Broadcast Value before any tick ran
C1_Witness ==
    tickPc = "idle" /\ tickResult = "none" /\ last_urine_level = 109

\* C2: a tick goes on to notify (format the message and run the fan-out)
\* exactly when, at its test, the Tracked Value is present and differs from
\* the Last-Broadcast Value by at least the threshold; a tick that does not
\* notify sends nothing and leaves the Last-Broadcast Value alone; a tick
\* that notifies ends by setting it to the Tracked Value.  With threshold
\* 0.5 and Last-Broadcast 10.0, a tick at 10.0 or 10.2 skips and a tick at
\* 10.9 notifies.
C2_NotifiesIffThreshold ==
    /\ [][TickCheck =>
            /\ (tickPc' = "test") = (current_value # None)
            /\ tickPc' \in { "test", "idle" }
            /\ UNCHANGED << last_urine_level, attempts >>]_vars
    /\ [][TickTest =>
            /\ (tickPc' = "change") =
                   ( /\ current_value # None
                     /\ \/ current_value[1] - last_urine_level >= 5
                        \/ last_urine_level - current_value[1] >= 5 )
            /\ tickPc' \in { "change", "idle" }
            /\ UNCHANGED << last_urine_level, attempts >>
            /\ (last_urine_level = 100 /\ current_value \in { Some(100), Some(102) }
                    => tickPc' = "idle" /\ tickResult' = "skipped")
            /\ (last_urine_level = 100 /\ current_value = Some(109)
                    => tickPc' = "change")]_vars
    /\ [][FinishStep => last_urine_level' = current_value[1]]_vars
    /\ [](tickPc = "idle" => attempts = << >>)

\* a tick that found 10.9 against a Last-Broadcast of 10.0 has notified
C2_Witness ==
    /\ tickPc = "fin"
    /\ msg.prev = Some(100)
    /\ msg.cur = Some(109)
    /\ current_value = Some(109)

\* C3: when a notifying tick ends, the Last-Broadcast Value is the level its
\* message announced as the current level.
C3_BroadcastIsAnnounced ==
    [][FinishStep => last_urine_level' = msg.cur[1]]_vars

\* C4: connect() returns normally only with the subscription request issued.
C4_ReturnsSubscribed == mainPc = "running" => subscribed

\* C5: while no handler changes the subscriber set during a fan-out, the
\* deliveries started are members of the set, none twice; a delivery that
\* raised is recorded and the loop goes on to the next member, removing no
\* subscriber; at the end of the loop every member was attempted exactly
\* once and the tick sets the Last-Broadcast Value.
C5_FanOut ==
    /\ [](tickPc \in { "send", "fin" } /\ ~subsChanged =>
            /\ NoRepeats(attempts)
            /\ Range(attempts) \subseteq subscribers
            /\ failed \subseteq Range(attempts)
            /\ tickPc = "fin" => Range(attempts) = subscribers
            /\ tickPc = "send" =>
                   chat_id = Some(attempts[Len(attempts)]) /\ chat_id[1] \notin failed)
    /\ [][(tickPc = "send" /\ ~subsChanged /\ cmd = None /\ cmd' = None) =>
            \/ UNCHANGED tickVars
            \/ /\ tickPc' \in { "send", "fin" }
               /\ subscribers' = subscribers
               /\ failed \subseteq failed'
               /\ failed' \subseteq failed \cup { chat_id[1] }
               /\ tickPc' = "fin" => attempts' = attempts
               /\ tickPc' = "send" =>
                      Len(attempts') = Len(attempts) + 1
                      /\ SubSeq(attempts', 1, Len(attempts)) = attempts]_vars
    /\ [][FinishStep =>
            tickResult' = "notified" /\ last_urine_level' = current_value[1]]_vars

\* the first of two deliveries raised, the second was still attempted
C5_Witness ==
    /\ tickPc = "fin"
    /\ ~subsChanged
    /\ Len(attempts) = 2
    /\ failed = { attempts[1] }

\* C6: once a /start or /stop handler has replied, the file read back with
\* load is the in-memory set; load(save(S)) = S for sets of integers,
\* the empty set included; load of a missing file is the empty set.
C6_StoreMatchesMemory ==
    /\ (cmd # None /\ cmd[1].name \in { "start", "stop" } /\ Len(reply) = 1) =>
            load_subscribers(file) = [ok |-> TRUE, val |-> subscribers]
    /\ \A S \in SUBSET (ChatIds \cup { 0, 7 }) :
            load_subscribers(save_subscribers(S)) = [ok |-> TRUE, val |-> S]
    /\ load_subscribers(Missing) = [ok |-> TRUE, val |-> {}]

\* C7: /start of a subscribed id changes neither the set nor the file and
\* replies "already subscribed"; /stop of an id not in the set changes
\* neither and replies "wasn't subscribed"; /start of an absent id adds that
\* id and replies with the welcome; /stop of a present id removes that id
\* and replies with the confirmation.
C7_SubscribeUnsubscribe ==
    [][\A c \in ChatIds :
          /\ Handles("start", c) =>
                IF c \in subscribers
                THEN UNCHANGED storeVars /\ reply' = << AlreadySubscribed >>
                ELSE subscribers' = subscribers \cup { c } /\ reply' = << Welcome >>
          /\ Handles("stop", c) =>
                IF c \notin subscribers
                THEN UNCHANGED storeVars /\ reply' = << WasntSubscribed >>
                ELSE subscribers' = subscribers \ { c } /\ reply' = << Unsubscribed >>]_vars

\* C8: a status change sets the Connection Status to connected for a status
\* that begins with "CONNECTED:", to disconnected for the status
\* "DISCONNECTED", leaves it as it was for every other status, and changes
\* nothing else.
C8_StatusChange ==
    [][clientStatus' # clientStatus =>
          /\ connected' =
                 IF Len(clientStatus') > 1 /\ clientStatus'[1] = "CONNECTED"
                                           /\ clientStatus'[2] = ":"
                 THEN TRUE
                 ELSE IF clientStatus' = << "DISCONNECTED" >> THEN FALSE
                 ELSE connected
          /\ UNCHANGED << storeVars, levelVars, mainVars, tickVars, cmdVars,
                          ghostVars >>]_vars

\* the flag stayed connected through a disconnected status with a suffix
C8_Witness ==
    clientStatus = << "DISCONNECTED", ":", "WILL-RETRY" >> /\ connected

\* the level a parsable text of the feed stands for
LevelOf(text) ==
    CASE text = T0 -> 0
      [] text = T100 -> 100
      [] text = T102 -> 102
      [] text = T105 -> 105
      [] text = T109 -> 109

\* C9: a frame of either form whose Value text is not a number leaves the
\* Tracked Value and the Last-Broadcast Value as they were, and no exception
\* leaves the callback; a frame of the tracked item with a parsable Value
\* sets the Tracked Value to that number.
C9_BadFrameDropped ==
    /\ [](~cbEscaped)
    /\ [][\A f \in FeedFrames :
             onItemUpdate(f) =>
                 /\ f.value \in { Some(TBad), Some(TEmpty) } => UNCHANGED levelVars
                 /\ ( /\ f.item = "NODE3000005"
                      /\ f.present
                      /\ f.value \in { Some(T0), Some(T102) } )
                        => current_value' = Some(LevelOf(f.value[1]))]_vars

\* an unparsable frame was dropped and the Tracked Value is a level received
C9_Witness ==
    /\ "Could not convert" \in errorLog
    /\ current_value = Some(102)
    /\ ~cbEscaped

\* C10: the Tracked Value is absent exactly until the first frame with a
\* parsable value is processed and is never absent afterwards; /status
\* replies "unable to fetch" exactly when it is absent and replies with the
\* Tracked Value otherwise.
C10_TrackedValuePresence ==
    /\ []((current_value = None) = ~everValid)
    /\ [][current_value # None => current_value' # None]_vars
    /\ [][everValid' # everValid =>
             \E f \in FeedFrames : f.value # None /\ onItemUpdate(f)]_vars
    /\ [][\A c \in ChatIds :
             Handles("status", c) =>
                 reply' = << IF current_value = None
                             THEN Text("unable to fetch", << >>)
                             ELSE Text("level", << Format1f(current_value[1]) >>) >>]_vars

\* /status replied with a received level of 0.0
C10_Witness ==
    /\ cmd = Some([name |-> "status", chat |-> 12])
    /\ current_value = Some(0)
    /\ reply = << Text("level", << << "0", ".", "0" >> >>) >>

\* C11: every handled command (/start, /stop, /status, /test) produces
\* exactly one reply to the originating chat, in every state, the Tracked
\* Value absent and the save of the subscriber set failing included.
C11_ExactlyOneReply == cmd # None => Len(reply) = 1

\* the step is a step of a notifier tick
TickStep == tickPc' # tickPc \/ tickResult' # tickResult \/ attempts' # attempts

\* C12: the notifier is scheduled only after connect() returned normally: no
\* tick step is taken before connect() has seen the connected flag set and
\* returned; connect() fails only at the end of the bounded wait with the
\* flag not set, and after that failure startup never completes and no tick
\* step is ever taken.
C12_TickOnlyAfterConnect ==
    /\ [](mainPc # "running" =>
             tickPc = "idle" /\ tickResult = "none" /\ attempts = << >>)
    /\ [][TickStep => mainPc = "running" /\ mainPc' = "running"]_vars
    /\ [][mainPc # "running" /\ mainPc' = "running" =>
             connected /\ mainPc \in { "poll", "after" }]_vars
    /\ [][mainPc # "failed" /\ mainPc' = "failed" =>
             ~connected /\ mainPc = "after"]_vars
    /\ [][mainPc = "failed" => UNCHANGED vars]_vars

\* the wait of connect() timed out after the transport had reported a status
C12_Witness ==
    /\ mainPc = "failed"
    /\ clientStatus = << "CONNECTING" >>
    /\ tickResult = "none"

\* C13: /status and /test change none of the subscriber set, the stored
\* file, the Tracked Value, the Last-Broadcast Value and the Connection
\* Status; a step of a notifier tick changes none of the subscriber set, the
\* stored file, the Tracked Value and the Connection Status; a feed update
\* changes none of the subscriber set, the stored file and the Connection
\* Status; a status change changes none of the Tracked Value, the
\* Last-Broadcast Value and the subscriber set.
C13_FrameConditions ==
    /\ [][\A c \in ChatIds :
             Handles("status", c) \/ Handles("test", c) =>
                 UNCHANGED << subscribers, file, current_value,
                              last_urine_level, connected >>]_vars
    /\ [][TickStep =>
             UNCHANGED << subscribers, file, current_value, connected >>]_vars
    /\ [][( \/ current_value' # current_value
            \/ errorLog' # errorLog
            \/ \E f \in Frames : onItemUpdate(f) ) =>
             UNCHANGED << subscribers, file, connected >>]_vars
    /\ [][clientStatus' # clientStatus =>
             UNCHANGED << current_value, last_urine_level, subscribers >>]_vars

\* /test is handled while a tick is suspended in a send, the transport
\* stalled, with a level received
C13_Witness ==
    /\ cmd = Some([name |-> "test", chat |-> 12])
    /\ tickPc = "send"
    /\ clientStatus = << "STALLED" >>
    /\ current_value = Some(109)
    /\ subscribers = { 12 }

\* C14: a tick that passed the threshold test runs to its end, where it sets
\* the Last-Broadcast Value to the Tracked Value, also when /start or /stop
\* changed the subscriber set while it was suspended in a send.
C14_NotifyingTickCompletes ==
    [][( /\ tickPc \in { "change", "prev", "cur", "loop", "send", "fin" }
         /\ tickPc' = "idle" ) =>
          /\ tickResult' = "notified"
          /\ last_urine_level' = current_value[1]]_vars

\* C15: the Connection Status flag is set only while the last status the
\* transport reported is a connected status (one that begins with
\* "CONNECTED:"), and a /test reply says Connected only then.
C15_FlagFollowsTransport ==
    /\ connected => StartsWithConnected(clientStatus)
    /\ ( /\ cmd # None
         /\ cmd[1].name = "test"
         /\ reply[1].args[1] = << "Connected" >> )
           => StartsWithConnected(clientStatus)

\* C16: the previous level of a notification is a level the feed carried;
\* in particular no notification announces a change from the default 0.0,
\* which no frame of this feed carries.
C16_PreviousWasReceived ==
    msg.prev # None =>
        msg.prev[1] \in { LevelOf(f.value[1]) : f \in LevelFrames }

\* C17: under fair scheduling of the notifier, if the Tracked Value is
\* present and from some point on stays at one level, then from some point
\* on the Last-Broadcast Value is within the threshold of it for ever: no
\* change of at least the threshold stays unannounced for ever.
C17_ChangeEventuallyAnnounced ==
    \A v \in { 100, 109 } :
        <>[](current_value = Some(v)) =>
            <>[](Abs(v - last_urine_level) < MIN_CHANGE_THRESHOLD)

\* C18: a delivery is started only to a chat id that is in the subscriber
\* set when it starts; a handled /stop leaves the chat out of the set, and
\* only that chat's own /start puts it back: after its /stop and until its
\* next /start no delivery to the chat is started, by the tick that was
\* running or by a later one.
C18_DeliveryOnlyToSubscribed ==
    /\ [][attempts' # attempts /\ attempts' # << >> =>
             /\ Len(attempts') = Len(attempts) + 1
             /\ attempts'[Len(attempts')] \in subscribers
             /\ subscribers' = subscribers
             /\ chat_id' = Some(attempts'[Len(attempts')])]_vars
    /\ [][\A c \in ChatIds :
             /\ Handles("stop", c) => c \notin subscribers'
             /\ (c \notin subscribers /\ c \in subscribers') =>
                    Handles("start", c)]_vars

\* during the send to chat 12 its /stop and the /start of chat -3 were
\* handled; the next delivery went to -3 and none to 12 again
C18_Witness ==
    /\ tickPc = "send"
    /\ subsChanged
    /\ subscribers = { -3 }
    /\ attempts = << 12, -3 >>
    /\ chat_id = Some(-3)

=============================================================================
